---- MODULE Spec2Model ----
(***************************************************************************)
(* Model of the two spot-pricing scripts, cpu-spot-pricing.py and          *)
(* gpu-spot-pricing.py.  main lists the regions, creates one in-memory     *)
(* object stream, starts one query_region task per region in a task group  *)
(* (each with its own clone of the send handle), closes its own send       *)
(* handle and drains the receive side, printing the records whose price is *)
(* under the script's ceiling.                                             *)
(*                                                                         *)
(* Representation.  An instance type "g5.48xlarge" is the tuple of its     *)
(* dot-separated segments <<"g5", "48xlarge">>, so that split(".")[k] is   *)
(* the tuple's element k+1.  A price is a whole number of hundredths of a  *)
(* dollar; SpotPrice strings are converted by ParseFloat.  A step of the   *)
(* model is the code a coroutine runs between two suspension points of the *)
(* event loop.                                                             *)
(***************************************************************************)
EXTENDS Integers, Sequences, FiniteSets, TLC

\* Largest number of regions the listing returns.
MaxRegions == 2

\* create_memory_object_stream() without argument: a buffer of size 0.
max_buffer_size == 0

\* MAX_PRICE = 1.2, in hundredths.
MAX_PRICE == 120

\* G6E_G5_PERF_RATIO = 2.35, in hundredths.
G6E_G5_PERF_RATIO == 235

\* MAX_PRICE_PER_GPU_HOUR = 0.49, in hundredths.
MAX_PRICE_PER_GPU_HOUR == 49

Scripts == {"cpu", "gpu"}

Tasks == 1..MaxRegions

NoRecord == [none |-> TRUE]

(***************************************************************************)
(* Raw records of the remote service (SpotPriceTypeDef).                   *)
(***************************************************************************)
Raw(it, zone, price) == [InstanceType |-> it, AvailabilityZoneId |-> zone, SpotPrice |-> price]

\* cpu script: the two INSTANCE_TYPES.
RawA == Raw(<<"c8g", "48xlarge">>, "az1", "1.00")
RawB == Raw(<<"c8g", "metal-48xl">>, "az2", "1.2")
RawC == Raw(<<"c8g", "48xlarge">>, "az3", "1.25")
\* A raw record without its SpotPrice field.
RawM == [InstanceType |-> <<"c8g", "48xlarge">>, AvailabilityZoneId |-> "az4"]

\* gpu script: families g5 and g6e.
RawG == Raw(<<"g5", "48xlarge">>, "az1", "1.60")
RawH == Raw(<<"g5", "48xlarge">>, "az2", "1.70")
RawE == Raw(<<"g6e", "xlarge">>, "az3", "0.49")
RawW == Raw(<<"g5", "weird">>, "az4", "0.10")
RawU == Raw(<<"p4", "xlarge">>, "az5", "0.10")
\* A raw record whose price is no number.
RawX == Raw(<<"g5", "xlarge">>, "az7", "n/a")

(***************************************************************************)
(* What one region's remote service does: whether the session opens, the   *)
(* pages the paginator yields, and whether the page sequence ends normally *)
(* or with a transport error after the last of these pages.                *)
(***************************************************************************)
Remote(open, pages, ending) == [open |-> open, pages |-> pages, ending |-> ending]

Behaviours(s) ==
    IF s = "cpu"
    THEN { Remote(TRUE, <<>>, "end"),
           Remote(TRUE, <<<<RawA, RawC>>>>, "end"),
           Remote(TRUE, <<<<RawB>>>>, "error"),
           Remote(FALSE, <<>>, "end"),
           Remote(TRUE, <<<<RawM, RawB>>>>, "end") }
    ELSE { Remote(TRUE, <<<<>>>>, "end"),
           Remote(TRUE, <<<<RawG>>, <<RawE>>>>, "end"),
           Remote(TRUE, <<<<RawH, RawW>>>>, "end"),
           Remote(TRUE, <<<<RawU>>>>, "end"),
           Remote(TRUE, <<<<RawX>>>>, "end") }

VARIABLES
    script,               \* which of the two scripts runs
    mainPc,               \* where main is: "listing", "spawning", "recv" (before
                          \* receive), "recvWait" (suspended in receive), "eos"
                          \* (woken by the last close), "classify" (woken with a
                          \* record), "joining", "done", "crashed"
    mainExc,              \* the exception the body of main raised, or "none"
    REGIONS,              \* the region list, each region with its remote behaviour
    tpc,                  \* where each query_region task is: "none" (not spawned),
                          \* "spawned" (scheduled, or inside create_client),
                          \* "paging", "sending", "blocked" (suspended in send),
                          \* "closing" (output closed, closing the ec2 client),
                          \* "done", "failed", "cancelled"
    outcome,              \* how a task left its paging loop
    pageIdx,              \* pages a task has fetched
    pending,              \* raw records of the current page not yet decoded and sent
    sessionOpen,          \* the task's ec2 client is open
    everOpened,           \* the task has opened an ec2 client
    cloneOpen,            \* the task's send-handle clone is open
    origOpen,             \* main's own send handle is open
    open_send_channels,   \* stream state: open send handles
    open_receive_channels,\* stream state: open receive handles
    buffer,               \* stream state: buffered items
    waiting_senders,      \* stream state: suspended senders, in arrival order
    cancelled,            \* the task group's cancel scope is cancelled
    exceptions,           \* tasks whose exception the task group collected
    cur,                  \* the record main holds and has not classified yet
    received,             \* every record handed to main, in order, with its region
    emitted,              \* the sink: every printed record, in order
    eosSeen               \* main has seen the end of the stream

vars == <<script, mainPc, mainExc, REGIONS, tpc, outcome, pageIdx, pending,
          sessionOpen, everOpened, cloneOpen, origOpen, open_send_channels,
          open_receive_channels, buffer, waiting_senders, cancelled, exceptions,
          cur, received, emitted, eosSeen>>

Init ==
    /\ script \in Scripts
    /\ mainPc = "listing"
    /\ mainExc = "none"
    /\ REGIONS = <<>>
    /\ tpc = [i \in Tasks |-> "none"]
    /\ outcome = [i \in Tasks |-> "none"]
    /\ pageIdx = [i \in Tasks |-> 0]
    /\ pending = [i \in Tasks |-> <<>>]
    /\ sessionOpen = [i \in Tasks |-> FALSE]
    /\ everOpened = [i \in Tasks |-> FALSE]
    /\ cloneOpen = [i \in Tasks |-> FALSE]
    /\ origOpen = FALSE
    /\ open_send_channels = 0
    /\ open_receive_channels = 0
    /\ buffer = <<>>
    /\ waiting_senders = <<>>
    /\ cancelled = FALSE
    /\ exceptions = {}
    /\ cur = NoRecord
    /\ received = <<>>
    /\ emitted = <<>>
    /\ eosSeen = FALSE

(***************************************************************************)
(* Pricing and the classification of a record.                             *)
(***************************************************************************)
Ok(v) == [ok |-> TRUE, val |-> v]
Err(e) == [ok |-> FALSE, err |-> e]

\* float(): the decimal strings the remote service sends, as hundredths.
PriceTable ==
    ("0.10" :> 10) @@ ("0.49" :> 49) @@ ("1.00" :> 100) @@ ("1.2" :> 120) @@ ("1.25" :> 125)
        @@ ("1.60" :> 160) @@ ("1.70" :> 170)

ParseFloat(s) ==
    IF s \in DOMAIN PriceTable THEN Ok(PriceTable[s]) ELSE Err("ValueError")

\* Pricing.from_dict: the three fields are read, then the price is converted.
from_dict(data) ==
    IF ~({"InstanceType", "AvailabilityZoneId", "SpotPrice"} \subseteq DOMAIN data)
    THEN Err("KeyError")
    ELSE LET price == ParseFloat(data.SpotPrice)
         IN  IF ~price.ok
             THEN Err("ValueError")
             ELSE Ok([instance_type |-> data.InstanceType,
                      zone_id |-> data.AvailabilityZoneId,
                      spot_price |-> price.val])

\* InstanceFamily: the enumeration's values are the lower-cased member names.
InstanceFamily == {"g5", "g6e"}

instance_family(p) ==
    IF p.instance_type[1] \in InstanceFamily
    THEN Ok(p.instance_type[1])
    ELSE Err("ValueError")

instance_size(p) ==
    IF Len(p.instance_type) >= 2 THEN Ok(p.instance_type[2]) ELSE Err("IndexError")

\* Faulty variant of gpu_count: 48xlarge is counted with 12xlarge and 24xlarge.
gpu_count_48_as_4(p) ==
    LET size == instance_size(p)
    IN  IF ~size.ok THEN size
        ELSE IF size.val \in {"xlarge", "2xlarge", "4xlarge", "8xlarge", "16xlarge"} THEN Ok(1)
        ELSE IF size.val \in {"12xlarge", "24xlarge", "48xlarge"} THEN Ok(4)
        ELSE Err("ValueError")

gpu_count(p) ==
    LET size == instance_size(p)
    IN  IF ~size.ok THEN size
        ELSE IF size.val \in {"xlarge", "2xlarge", "4xlarge", "8xlarge", "16xlarge"} THEN Ok(1)
        ELSE IF size.val \in {"12xlarge", "24xlarge"} THEN Ok(4)
        ELSE IF size.val = "48xlarge" THEN Ok(8)
        ELSE Err("ValueError")

\* The ceiling of the cpu script, as the fraction num/den of hundredths.
FlatCeiling(p) == Ok([num |-> MAX_PRICE, den |-> 1])

\* The ceiling of the gpu script: gpu_count is read first, then the family.
PerUnitCeiling(p) ==
    LET count == gpu_count(p)
        family == instance_family(p)
    IN  IF ~count.ok THEN count
        ELSE IF ~family.ok THEN family
        ELSE IF family.val = "g5"
             THEN Ok([num |-> count.val * MAX_PRICE_PER_GPU_HOUR * 100, den |-> G6E_G5_PERF_RATIO])
             ELSE Ok([num |-> count.val * MAX_PRICE_PER_GPU_HOUR, den |-> 1])

Ceiling(s, p) == IF s = "cpu" THEN FlatCeiling(p) ELSE PerUnitCeiling(p)

\* Faulty variant of UnderCeiling: a strict comparison.
StrictlyUnderCeiling(price, c) == price * c.den < c.num

\* spot_price <= max_price
UnderCeiling(price, c) == price * c.den <= c.num

Accept(s, p) == Ceiling(s, p).ok /\ UnderCeiling(p.spot_price, Ceiling(s, p).val)

(***************************************************************************)
(* The stream and the task group.                                          *)
(***************************************************************************)
Spawned == {i \in Tasks : tpc[i] # "none"}

Terminated(i) == tpc[i] \in {"done", "failed", "cancelled"}

\* Faulty variant of AfterSend: the task leaves the page after its first record.
AfterSendBreak(rest) == "paging"

\* Where a task goes on after a completed send: the rest of the page, or the
\* next page.
AfterSend(rest) == IF rest = <<>> THEN "paging" ELSE "sending"

Item(i, p) == [region |-> i, rec |-> p]

\* MemoryObjectSendStream.close(): the last send handle to close wakes the
\* waiting receiver, which then meets the end of the stream.
CloseSend ==
    /\ open_send_channels' = open_send_channels - 1
    /\ mainPc' = IF open_send_channels - 1 = 0 /\ mainPc = "recvWait" THEN "eos" ELSE mainPc

\* Leaving "async with ..., output": the clone is closed first; the ec2 client is
\* closed in a later step (ReleaseSession), its __aexit__ being awaited.
ExitOutput(i, how) ==
    /\ tpc' = [tpc EXCEPT ![i] = "closing"]
    /\ outcome' = [outcome EXCEPT ![i] = how]
    /\ cloneOpen' = [cloneOpen EXCEPT ![i] = FALSE]
    /\ CloseSend

\* Faulty variant of Cloned: the tasks are given send_stream itself, not a clone.
NotCloned(n) == n

\* send_stream.clone(): one more open send handle on the same stream.
Cloned(n) == n + 1

\* Faulty variant of HasRoom: a stream created with an unbounded buffer.
AlwaysRoom(buf) == TRUE

\* The stream takes an item into its buffer while the buffer has room.
HasRoom(buf) == Len(buf) < max_buffer_size

\* Faulty variant of NextPageOf: the pages are taken last first.
NextPageReversed(r, k) == r.pages[Len(r.pages) - k]

\* The page the paginator yields after k pages.
NextPageOf(r, k) == r.pages[k + 1]

\* Faulty variant of print: the line is put in front of the earlier ones.
print_first(sink, p) == <<p>> \o sink

\* print(pricing): one more line on the sink.
print(sink, p) == Append(sink, p)

\* A task runs only once main has reached its first suspension point.
MainYielded == mainPc \notin {"listing", "spawning"}

(***************************************************************************)
(* main                                                                    *)
(***************************************************************************)
\* Faulty variant of ListRegionsFails: the error is swallowed and the run goes on with
\* a partial listing.
ListRegionsFailsPartial ==
    /\ mainPc = "listing"
    /\ mainExc' = "ListingError"
    /\ \E b \in Behaviours(script) : REGIONS' = <<b>>
    /\ origOpen' = TRUE
    /\ open_send_channels' = 1
    /\ open_receive_channels' = 1
    /\ mainPc' = "spawning"
    /\ UNCHANGED <<script, tpc, outcome, pageIdx, pending, sessionOpen, everOpened,
                   cloneOpen, buffer, waiting_senders, cancelled, exceptions, cur,
                   received, emitted, eosSeen>>

\* REGIONS = await aws.get_available_regions("ec2") raises.
ListRegionsFails ==
    /\ mainPc = "listing"
    /\ mainPc' = "crashed"
    /\ mainExc' = "ListingError"
    /\ UNCHANGED <<script, REGIONS, tpc, outcome, pageIdx, pending, sessionOpen, everOpened,
                   cloneOpen, origOpen, open_send_channels, open_receive_channels, buffer,
                   waiting_senders, cancelled, exceptions, cur, received, emitted, eosSeen>>

\* The listing returns; create_memory_object_stream() makes the two handles.
ListRegions ==
    /\ mainPc = "listing"
    /\ \E n \in 0..MaxRegions : REGIONS' \in [1..n -> Behaviours(script)]
    /\ origOpen' = TRUE
    /\ open_send_channels' = 1
    /\ open_receive_channels' = 1
    /\ mainPc' = "spawning"
    /\ UNCHANGED <<script, mainExc, tpc, outcome, pageIdx, pending, sessionOpen, everOpened,
                   cloneOpen, buffer, waiting_senders, cancelled, exceptions, cur,
                   received, emitted, eosSeen>>

\* tg.start_soon(query_region, region, send_stream.clone()) for the next region.
StartSoon ==
    /\ mainPc = "spawning"
    /\ Cardinality(Spawned) < Len(REGIONS)
    /\ LET i == Cardinality(Spawned) + 1
       IN  /\ tpc' = [tpc EXCEPT ![i] = "spawned"]
           /\ cloneOpen' = [cloneOpen EXCEPT ![i] = TRUE]
    /\ open_send_channels' = Cloned(open_send_channels)
    /\ UNCHANGED <<script, mainPc, mainExc, REGIONS, outcome, pageIdx, pending, sessionOpen,
                   everOpened, origOpen, open_receive_channels, buffer, waiting_senders,
                   cancelled, exceptions, cur, received, emitted, eosSeen>>

\* Faulty variant of CloseOrig: the handle is closed inside the for loop, which ends
\* there, after the first region.
CloseOrigInLoop ==
    /\ mainPc = "spawning"
    /\ Cardinality(Spawned) >= 1 \/ Len(REGIONS) = 0
    /\ origOpen' = FALSE
    /\ open_send_channels' = open_send_channels - 1
    /\ mainPc' = "recv"
    /\ UNCHANGED <<script, mainExc, REGIONS, tpc, outcome, pageIdx, pending, sessionOpen,
                   everOpened, cloneOpen, open_receive_channels, buffer, waiting_senders,
                   cancelled, exceptions, cur, received, emitted, eosSeen>>

\* Faulty variant of CloseOrig: main keeps its own send handle open while it drains.
CloseOrigForgotten ==
    /\ mainPc = "spawning"
    /\ Cardinality(Spawned) = Len(REGIONS)
    /\ mainPc' = "recv"
    /\ UNCHANGED <<script, mainExc, REGIONS, tpc, outcome, pageIdx, pending, sessionOpen,
                   everOpened, cloneOpen, origOpen, open_send_channels,
                   open_receive_channels, buffer, waiting_senders, cancelled, exceptions,
                   cur, received, emitted, eosSeen>>

\* await send_stream.aclose(), main's first suspension point.
CloseOrig ==
    /\ mainPc = "spawning"
    /\ Cardinality(Spawned) = Len(REGIONS)
    /\ origOpen' = FALSE
    /\ open_send_channels' = open_send_channels - 1
    /\ mainPc' = "recv"
    /\ UNCHANGED <<script, mainExc, REGIONS, tpc, outcome, pageIdx, pending, sessionOpen,
                   everOpened, cloneOpen, open_receive_channels, buffer, waiting_senders,
                   cancelled, exceptions, cur, received, emitted, eosSeen>>

\* Leaving "async with ..., receive_stream": the receive handle is closed, then
\* the task group waits for its tasks.
LeaveLoop(exc) ==
    /\ mainPc' = "joining"
    /\ mainExc' = exc
    /\ open_receive_channels' = open_receive_channels - 1

\* Faulty variant of LoopBody: on a record it cannot classify main breaks out of
\* the loop with the receive handle left open and the scope not cancelled.
LoopBodyBreaks(p) ==
    IF Ceiling(script, p).ok
    THEN /\ emitted' = IF Accept(script, p) THEN print(emitted, p) ELSE emitted
         /\ mainPc' = "recv"
         /\ UNCHANGED <<mainExc, open_receive_channels, cancelled>>
    ELSE /\ mainPc' = "joining"
         /\ mainExc' = Ceiling(script, p).err
         /\ UNCHANGED <<emitted, open_receive_channels, cancelled>>

\* The body of the async for on record p: the ceiling is computed and the record
\* printed if its price is under it.  In the gpu script computing the ceiling
\* can raise; the exception leaves the loop and cancels the task group.
LoopBody(p) ==
    IF Ceiling(script, p).ok
    THEN /\ emitted' = IF Accept(script, p) THEN print(emitted, p) ELSE emitted
         /\ mainPc' = "recv"
         /\ UNCHANGED <<mainExc, open_receive_channels, cancelled>>
    ELSE /\ LeaveLoop(Ceiling(script, p).err)
         /\ cancelled' = TRUE
         /\ UNCHANGED emitted

\* receive(): a checkpoint, then receive_nowait().  An item that is there is
\* returned at once and the loop body runs on it before main suspends again.
Receive ==
    /\ mainPc = "recv"
    /\ IF cancelled
       THEN /\ LeaveLoop("Cancelled")
            /\ UNCHANGED <<tpc, pending, buffer, waiting_senders, received, eosSeen,
                           cancelled, emitted>>
       ELSE LET woken == waiting_senders # <<>>
                filled == IF woken THEN Append(buffer, Head(waiting_senders)) ELSE buffer
                j == Head(waiting_senders).region
            IN  /\ waiting_senders' = IF woken THEN Tail(waiting_senders) ELSE waiting_senders
                /\ tpc' = IF woken THEN [tpc EXCEPT ![j] = AfterSend(Tail(pending[j]))] ELSE tpc
                /\ pending' = IF woken THEN [pending EXCEPT ![j] = Tail(pending[j])] ELSE pending
                /\ IF filled # <<>>
                   THEN /\ received' = Append(received, Head(filled))
                        /\ buffer' = Tail(filled)
                        /\ LoopBody(Head(filled).rec)
                        /\ UNCHANGED eosSeen
                   ELSE /\ UNCHANGED <<received, buffer, cancelled, emitted>>
                        /\ IF open_send_channels = 0
                           THEN /\ LeaveLoop("none")
                                /\ eosSeen' = TRUE
                           ELSE /\ mainPc' = "recvWait"
                                /\ UNCHANGED <<mainExc, open_receive_channels, eosSeen>>
    /\ UNCHANGED <<script, REGIONS, outcome, pageIdx, sessionOpen, everOpened, cloneOpen,
                   origOpen, open_send_channels, exceptions, cur>>

\* The waiting receiver is cancelled.
ReceiveCancelled ==
    /\ mainPc = "recvWait"
    /\ cancelled
    /\ LeaveLoop("Cancelled")
    /\ UNCHANGED <<script, REGIONS, tpc, outcome, pageIdx, pending, sessionOpen, everOpened,
                   cloneOpen, origOpen, open_send_channels, buffer, waiting_senders,
                   cancelled, exceptions, cur, received, emitted, eosSeen>>

\* The waiting receiver was woken by the last send handle closing: EndOfStream
\* ends the async for.
EndOfStream ==
    /\ mainPc = "eos"
    /\ LeaveLoop("none")
    /\ eosSeen' = TRUE
    /\ UNCHANGED <<script, REGIONS, tpc, outcome, pageIdx, pending, sessionOpen, everOpened,
                   cloneOpen, origOpen, open_send_channels, buffer, waiting_senders,
                   cancelled, exceptions, cur, received, emitted>>

\* main resumes with the record a sender handed to it while it was waiting.
Classify ==
    /\ mainPc = "classify"
    /\ cur' = NoRecord
    /\ LoopBody(cur)
    /\ UNCHANGED <<script, REGIONS, tpc, outcome, pageIdx, pending, sessionOpen, everOpened,
                   cloneOpen, origOpen, open_send_channels, buffer, waiting_senders,
                   exceptions, received, eosSeen>>

\* Faulty variant of JoinReady: the scope is left without waiting for the tasks.
JoinNotAwaited == TRUE

\* The task group's __aexit__ returns once every task has terminated, and raises
\* what was collected.
JoinReady == \A i \in Spawned : Terminated(i)

Join ==
    /\ mainPc = "joining"
    /\ JoinReady
    /\ mainPc' = IF exceptions = {} /\ mainExc = "none" THEN "done" ELSE "crashed"
    /\ UNCHANGED <<script, mainExc, REGIONS, tpc, outcome, pageIdx, pending, sessionOpen,
                   everOpened, cloneOpen, origOpen, open_send_channels,
                   open_receive_channels, buffer, waiting_senders, cancelled, exceptions,
                   cur, received, emitted, eosSeen>>

(***************************************************************************)
(* query_region                                                            *)
(***************************************************************************)
\* The task starts while the scope is already cancelled and is cancelled inside
\* create_client's __aenter__: neither the client nor output was entered.
StartCancelled(i) ==
    /\ MainYielded
    /\ tpc[i] = "spawned"
    /\ cancelled
    /\ tpc' = [tpc EXCEPT ![i] = "cancelled"]
    /\ UNCHANGED <<script, mainPc, mainExc, REGIONS, outcome, pageIdx, pending, sessionOpen,
                   everOpened, cloneOpen, origOpen, open_send_channels,
                   open_receive_channels, buffer, waiting_senders, cancelled, exceptions,
                   cur, received, emitted, eosSeen>>

\* async with aws.create_client("ec2", region) as ec2, output: the client is
\* entered first, then the send handle.
OpenSession(i) ==
    /\ MainYielded
    /\ tpc[i] = "spawned"
    /\ REGIONS[i].open
    /\ tpc' = [tpc EXCEPT ![i] = "paging"]
    /\ sessionOpen' = [sessionOpen EXCEPT ![i] = TRUE]
    /\ everOpened' = [everOpened EXCEPT ![i] = TRUE]
    /\ UNCHANGED <<script, mainPc, mainExc, REGIONS, outcome, pageIdx, pending, cloneOpen,
                   origOpen, open_send_channels, open_receive_channels, buffer,
                   waiting_senders, cancelled, exceptions, cur, received, emitted, eosSeen>>

\* create_client raises: the task ends before it has entered output, whose
\* clone stays open.
OpenSessionFails(i) ==
    /\ MainYielded
    /\ tpc[i] = "spawned"
    /\ ~cancelled
    /\ ~REGIONS[i].open
    /\ tpc' = [tpc EXCEPT ![i] = "failed"]
    /\ outcome' = [outcome EXCEPT ![i] = "error"]
    /\ exceptions' = exceptions \cup {i}
    /\ cancelled' = TRUE
    /\ UNCHANGED <<script, mainPc, mainExc, REGIONS, pageIdx, pending, sessionOpen,
                   everOpened, cloneOpen, origOpen, open_send_channels,
                   open_receive_channels, buffer, waiting_senders, cur, received, emitted,
                   eosSeen>>

\* Faulty variant of EndOfPages: a region that yielded no record is reported as an
\* error.
EndOfPagesEmptyIsError(r) ==
    IF r.ending = "error" \/ \A k \in 1..Len(r.pages) : r.pages[k] = <<>>
    THEN "error" ELSE "ok"

\* How the async for over the pages ends: the paginator is exhausted, or it
\* raises a transport error.
EndOfPages(r) == IF r.ending = "error" THEN "error" ELSE "ok"

\* The paginator is asked for the next page: a page, the end of the pages, or
\* a transport error.
NextPage(i) ==
    /\ MainYielded
    /\ tpc[i] = "paging"
    /\ LET r == REGIONS[i]
       IN  IF cancelled
           THEN /\ ExitOutput(i, "cancelled")
                /\ UNCHANGED <<pageIdx, pending>>
           ELSE IF pageIdx[i] < Len(r.pages)
           THEN /\ pageIdx' = [pageIdx EXCEPT ![i] = pageIdx[i] + 1]
                /\ pending' = [pending EXCEPT ![i] = NextPageOf(r, pageIdx[i])]
                /\ tpc' = [tpc EXCEPT ![i] = AfterSend(NextPageOf(r, pageIdx[i]))]
                /\ UNCHANGED <<mainPc, outcome, cloneOpen, open_send_channels>>
           ELSE /\ ExitOutput(i, EndOfPages(r))
                /\ UNCHANGED <<pageIdx, pending>>
    /\ UNCHANGED <<script, mainExc, REGIONS, sessionOpen, everOpened, origOpen,
                   open_receive_channels, buffer, waiting_senders, cancelled, exceptions,
                   cur, received, emitted, eosSeen>>

\* The next raw record of the page is decoded and sent: await output.send(pricing).
Send(i) ==
    /\ MainYielded
    /\ tpc[i] = "sending"
    /\ LET decoded == from_dict(Head(pending[i]))
           rest == Tail(pending[i])
       IN  IF ~decoded.ok
           THEN /\ ExitOutput(i, "error")
                /\ UNCHANGED <<pending, buffer, waiting_senders, cur, received>>
           ELSE IF cancelled
           THEN /\ ExitOutput(i, "cancelled")
                /\ UNCHANGED <<pending, buffer, waiting_senders, cur, received>>
           ELSE IF open_receive_channels = 0
           THEN /\ ExitOutput(i, "error")
                /\ UNCHANGED <<pending, buffer, waiting_senders, cur, received>>
           ELSE IF mainPc = "recvWait"
           THEN /\ mainPc' = "classify"
                /\ cur' = decoded.val
                /\ received' = Append(received, Item(i, decoded.val))
                /\ pending' = [pending EXCEPT ![i] = rest]
                /\ tpc' = [tpc EXCEPT ![i] = AfterSend(rest)]
                /\ UNCHANGED <<outcome, cloneOpen, open_send_channels, buffer, waiting_senders>>
           ELSE IF HasRoom(buffer)
           THEN /\ buffer' = Append(buffer, Item(i, decoded.val))
                /\ pending' = [pending EXCEPT ![i] = rest]
                /\ tpc' = [tpc EXCEPT ![i] = AfterSend(rest)]
                /\ UNCHANGED <<mainPc, outcome, cloneOpen, open_send_channels, waiting_senders,
                               cur, received>>
           ELSE /\ waiting_senders' = Append(waiting_senders, Item(i, decoded.val))
                /\ tpc' = [tpc EXCEPT ![i] = "blocked"]
                /\ UNCHANGED <<mainPc, outcome, cloneOpen, open_send_channels, pending, buffer,
                               cur, received>>
    /\ UNCHANGED <<script, mainExc, REGIONS, pageIdx, sessionOpen, everOpened, origOpen,
                   open_receive_channels, cancelled, exceptions, emitted, eosSeen>>

WithoutSender(i) == SelectSeq(waiting_senders, LAMBDA w : w.region # i)

\* The receive handle was closed while the task was suspended in send():
\* BrokenResourceError.
SendBroken(i) ==
    /\ tpc[i] = "blocked"
    /\ open_receive_channels = 0
    /\ waiting_senders' = WithoutSender(i)
    /\ ExitOutput(i, "error")
    /\ UNCHANGED <<script, mainExc, REGIONS, pageIdx, pending, sessionOpen, everOpened,
                   origOpen, open_receive_channels, buffer, cancelled, exceptions, cur,
                   received, emitted, eosSeen>>

\* The task is cancelled while suspended in send().
SendCancelled(i) ==
    /\ tpc[i] = "blocked"
    /\ cancelled
    /\ waiting_senders' = WithoutSender(i)
    /\ ExitOutput(i, "cancelled")
    /\ UNCHANGED <<script, mainExc, REGIONS, pageIdx, pending, sessionOpen, everOpened,
                   origOpen, open_receive_channels, buffer, cancelled, exceptions, cur,
                   received, emitted, eosSeen>>

\* Faulty variant of ClientOpenAfterExit: the client is closed after the paging loop,
\* without a with block, so only when the loop ends normally.
ClientOpenUnlessNormalExit(how) == how # "ok"

\* The ec2 client's __aexit__ runs on every way out of the with block.
ClientOpenAfterExit(how) == FALSE

\* The ec2 client is closed and the task ends; an exception other than a
\* cancellation is collected by the task group, which cancels its scope.
ReleaseSession(i) ==
    /\ tpc[i] = "closing"
    /\ sessionOpen' = [sessionOpen EXCEPT ![i] = ClientOpenAfterExit(outcome[i])]
    /\ tpc' = [tpc EXCEPT ![i] = CASE outcome[i] = "ok" -> "done"
                                   [] outcome[i] = "error" -> "failed"
                                   [] OTHER -> "cancelled"]
    /\ exceptions' = IF outcome[i] = "error" THEN exceptions \cup {i} ELSE exceptions
    /\ cancelled' = (cancelled \/ outcome[i] = "error")
    /\ UNCHANGED <<script, mainPc, mainExc, REGIONS, outcome, pageIdx, pending, everOpened,
                   cloneOpen, origOpen, open_send_channels, open_receive_channels, buffer,
                   waiting_senders, cur, received, emitted, eosSeen>>

Next ==
    \/ ListRegionsFails
    \/ ListRegions
    \/ StartSoon
    \/ CloseOrig
    \/ Receive
    \/ ReceiveCancelled
    \/ EndOfStream
    \/ Classify
    \/ Join
    \/ \E i \in Tasks : StartCancelled(i)
    \/ \E i \in Tasks : OpenSession(i)
    \/ \E i \in Tasks : OpenSessionFails(i)
    \/ \E i \in Tasks : NextPage(i)
    \/ \E i \in Tasks : Send(i)
    \/ \E i \in Tasks : SendBroken(i)
    \/ \E i \in Tasks : SendCancelled(i)
    \/ \E i \in Tasks : ReleaseSession(i)

Spec == Init /\ [][Next]_vars

\* The event loop of anyio.run keeps running a coroutine that is ready and a
\* remote call returns: the run does not stop while a step can be taken.  No
\* step can be repeated for ever, so this is all the scheduling guarantees.
FairSpec == Spec /\ WF_vars(Next)

(***************************************************************************)
(* The state main is in once the listing has returned the regions regs and *)
(* the stream has been created.                                            *)
(***************************************************************************)
AfterListing(s, regs) ==
    /\ script = s
    /\ mainPc = "spawning"
    /\ mainExc = "none"
    /\ REGIONS = regs
    /\ tpc = [i \in Tasks |-> "none"]
    /\ outcome = [i \in Tasks |-> "none"]
    /\ pageIdx = [i \in Tasks |-> 0]
    /\ pending = [i \in Tasks |-> <<>>]
    /\ sessionOpen = [i \in Tasks |-> FALSE]
    /\ everOpened = [i \in Tasks |-> FALSE]
    /\ cloneOpen = [i \in Tasks |-> FALSE]
    /\ origOpen = TRUE
    /\ open_send_channels = 1
    /\ open_receive_channels = 1
    /\ buffer = <<>>
    /\ waiting_senders = <<>>
    /\ cancelled = FALSE
    /\ exceptions = {}
    /\ cur = NoRecord
    /\ received = <<>>
    /\ emitted = <<>>
    /\ eosSeen = FALSE

(***************************************************************************)
(* The gpu script on region lists whose first region holds a record main   *)
(* cannot classify (the others are any regions of the gpu script), under   *)
(* the event loop's scheduling: the runs in which main's loop can raise.   *)
(* The listing is over and every session opens, so the listing steps and   *)
(* OpenSessionFails have no part in these runs.                            *)
(***************************************************************************)
StopInputs ==
    {<<Remote(TRUE, <<<<RawH, RawW>>>>, "end")>> \o rest :
        rest \in UNION {[1..n -> Behaviours("gpu")] : n \in 0..(MaxRegions - 1)}}

StopInit == \E regs \in StopInputs : AfterListing("gpu", regs)

StopNext ==
    \/ StartSoon
    \/ CloseOrig
    \/ Receive
    \/ ReceiveCancelled
    \/ EndOfStream
    \/ Classify
    \/ Join
    \/ \E i \in Tasks : StartCancelled(i)
    \/ \E i \in Tasks : OpenSession(i)
    \/ \E i \in Tasks : NextPage(i)
    \/ \E i \in Tasks : Send(i)
    \/ \E i \in Tasks : SendBroken(i)
    \/ \E i \in Tasks : SendCancelled(i)
    \/ \E i \in Tasks : ReleaseSession(i)

\* As for FairSpec: the event loop runs what is ready, and no step repeats for
\* ever.
StopFairSpec == StopInit /\ [][StopNext]_vars /\ WF_vars(StopNext)

(***************************************************************************)
(* The gpu script on one region of one page of two records, the first of   *)
(* any family, size and price: what main and the region's task do once the *)
(* listing has returned that region.  The listing is over, one task has no *)
(* sibling to cancel or to be cancelled by, and the session opens, so the  *)
(* other actions have no part in these runs.                               *)
(***************************************************************************)
PolicyFamilies == {"g5", "g6e", "p4"}

PolicySizes ==
    {"xlarge", "2xlarge", "4xlarge", "8xlarge", "16xlarge", "12xlarge", "24xlarge",
     "48xlarge", "weird"}

PolicyInputs ==
    {Raw(<<f, z>>, "az1", pr) : f \in PolicyFamilies, z \in PolicySizes, pr \in DOMAIN PriceTable}

PolicyInit ==
    \E x \in PolicyInputs, y \in {RawG, RawH} :
        AfterListing("gpu", <<Remote(TRUE, <<<<x, y>>>>, "end")>>)

PolicyNext ==
    \/ StartSoon
    \/ CloseOrig
    \/ Receive
    \/ EndOfStream
    \/ Classify
    \/ Join
    \/ \E i \in Tasks : OpenSession(i)
    \/ \E i \in Tasks : NextPage(i)
    \/ \E i \in Tasks : Send(i)
    \/ \E i \in Tasks : SendBroken(i)
    \/ \E i \in Tasks : SendCancelled(i)
    \/ \E i \in Tasks : ReleaseSession(i)

PolicySpec == PolicyInit /\ [][PolicyNext]_vars

(***************************************************************************)
(* Vocabulary of the properties.                                           *)
(***************************************************************************)
RECURSIVE Flatten(_)
Flatten(pages) == IF pages = <<>> THEN <<>> ELSE Head(pages) \o Flatten(Tail(pages))

Listed == 1..Len(REGIONS)

\* The raw records of region i, in page order and in record order within a page.
RawsOf(i) == Flatten(REGIONS[i].pages)

\* The records main has received from region i, in the order it received them.
ReceivedFrom(i) ==
    LET mine == SelectSeq(received, LAMBDA x : x.region = i)
    IN  [k \in 1..Len(mine) |-> mine[k].rec]

\* A region whose session opens, whose pages end normally and whose raw records
\* all decode.
Healthy(r) ==
    /\ r.open
    /\ r.ending = "end"
    /\ \A k \in 1..Len(Flatten(r.pages)) : from_dict(Flatten(r.pages)[k]).ok

\* A region that yields at least one record and then a transport error.
FailsMidPagination(r) ==
    /\ r.open
    /\ r.ending = "error"
    /\ Flatten(r.pages) # <<>>
    /\ \A k \in 1..Len(Flatten(r.pages)) : from_dict(Flatten(r.pages)[k]).ok

\* Every raw record of region i has been received, in order.
AllReceivedFrom(i) ==
    /\ Len(ReceivedFrom(i)) = Len(RawsOf(i))
    /\ \A k \in 1..Len(RawsOf(i)) : ReceivedFrom(i)[k] = from_dict(RawsOf(i)[k]).val

RunEnded == mainPc \in {"done", "crashed"}

\* The received records main has classified: all but the one it still holds.
Classified == IF mainPc = "classify" THEN SubSeq(received, 1, Len(received) - 1) ELSE received

Count(seq, x) == Cardinality({k \in 1..Len(seq) : seq[k] = x})

(***************************************************************************)
(* C1.  If exactly one region fails mid-pagination while the other regions *)
(* are healthy, no sibling task is cancelled, and by the end of the run    *)
(* every record of the healthy regions has been received, those under the  *)
(* ceiling have been emitted, and the failure has been collected.          *)
(* The task group cancels the siblings and main, so this does not hold.    *)
(***************************************************************************)
C1_FailureIsIsolated ==
    \A i \in Listed :
        (/\ FailsMidPagination(REGIONS[i])
         /\ \A j \in Listed \ {i} : Healthy(REGIONS[j])
         /\ script = "cpu")
        => /\ \A j \in Listed \ {i} : tpc[j] # "cancelled" /\ outcome[j] # "cancelled"
           /\ RunEnded =>
                 /\ i \in exceptions
                 /\ \A j \in Listed \ {i} :
                       /\ AllReceivedFrom(j)
                       /\ \A k \in 1..Len(ReceivedFrom(j)) :
                             ReceivedFrom(j)[k].spot_price <= MAX_PRICE
                                 => Count(emitted, ReceivedFrom(j)[k]) >= 1

(***************************************************************************)
(* C2.  As claimed: main sees the end of the stream only when every        *)
(* spawned task has terminated.  A task closes its send handle before it   *)
(* closes its ec2 client, so main can see the end of the stream while a    *)
(* task is still closing its client.                                       *)
(***************************************************************************)
C2_EosOnlyAfterAllTerminated ==
    eosSeen => \A i \in Listed : Terminated(i)

\* C2, amended: main sees the end of the stream only when a task was spawned
\* for every listed region and every one of them has left its paging loop and
\* closed its send handle (it has terminated or is closing its ec2 client);
\* main's own handle is closed as well.
C2_EosOnlyAfterAllLeftLoop ==
    eosSeen =>
        /\ Spawned = Listed
        /\ ~origOpen
        /\ \A i \in Listed :
              /\ tpc[i] \in {"closing", "done", "failed", "cancelled"}
              /\ ~cloneOpen[i]

\* Two regions, the end of the stream seen after records of both arrived, one
\* task terminated and the other still closing its client.
C2_Witness ==
    /\ eosSeen
    /\ Len(REGIONS) = 2
    /\ tpc[1] = "done"
    /\ tpc[2] = "closing"
    /\ ReceivedFrom(1) # <<>>
    /\ ReceivedFrom(2) # <<>>

(***************************************************************************)
(* C3.  When no region has an error, every record of every region has been *)
(* received by the time main sees the end of the stream, however slow a    *)
(* region is.                                                              *)
(***************************************************************************)
C3_NoRecordLostAtClosure ==
    (eosSeen /\ \A i \in Listed : Healthy(REGIONS[i]))
        => \A i \in Listed : AllReceivedFrom(i)

\* A fast and a slow region: every record of region 1 arrived before the
\* first record of region 2, and the end of the stream came after all of them.
C3_Witness ==
    /\ eosSeen
    /\ Len(REGIONS) = 2
    /\ Len(RawsOf(1)) = 2
    /\ Len(RawsOf(2)) = 2
    /\ Len(received) = 4
    /\ \A k \in 1..2 : received[k].region = 1 /\ received[k + 2].region = 2

(***************************************************************************)
(* C4.  Each record a task sends is received and classified once: main     *)
(* never receives from a region more copies of a record than the region    *)
(* holds; the sink holds, in the order of reception, exactly the received  *)
(* and classified records that are under the ceiling; and a run that ends  *)
(* without error has received every record of every region, so that the    *)
(* emitted records are the same multiset in every interleaving.            *)
(***************************************************************************)
RECURSIVE Decoded(_)
Decoded(raws) ==
    IF raws = <<>> THEN <<>>
    ELSE LET d == from_dict(Head(raws))
         IN  IF d.ok THEN <<d.val>> \o Decoded(Tail(raws)) ELSE Decoded(Tail(raws))

\* The records region i holds: its raw records that decode, in order.
DecodedOf(i) == Decoded(RawsOf(i))

RECURSIVE ExpectedEmitted(_)
ExpectedEmitted(n) ==
    IF n = 0 THEN <<>>
    ELSE ExpectedEmitted(n - 1) \o SelectSeq(DecodedOf(n), LAMBDA p : Accept(script, p))

RecsOf(seq) == [k \in 1..Len(seq) |-> seq[k].rec]

C4_EachRecordOnceInOrder ==
    /\ \A i \in Listed :
          LET got == ReceivedFrom(i)
              held == DecodedOf(i)
          IN  \A k \in 1..Len(got) : Count(got, got[k]) <= Count(held, got[k])
    /\ emitted = RecsOf(SelectSeq(Classified, LAMBDA x : Accept(script, x.rec)))
    /\ mainPc = "done" =>
          LET expected == ExpectedEmitted(Len(REGIONS))
          IN  /\ \A i \in Listed :
                    LET got == ReceivedFrom(i)
                        held == DecodedOf(i)
                    IN  \A k \in 1..Len(held) : Count(got, held[k]) = Count(held, held[k])
              /\ Len(emitted) = Len(expected)
              /\ \A k \in 1..Len(emitted) :
                    Count(emitted, emitted[k]) = Count(expected, emitted[k])

\* A run of two regions of two records each that ended without error, the
\* records of the two regions interleaved, some emitted and some not.
C4_Witness ==
    /\ mainPc = "done"
    /\ Len(received) = 4
    /\ received[1].region = 2
    /\ received[2].region = 1
    /\ received[3].region = 2
    /\ Len(emitted) = 2

(***************************************************************************)
(* C5.  The records main has received from a region are the first records  *)
(* of that region, in page order and in record order within a page,        *)
(* whatever the interleaving with the other regions.                       *)
(***************************************************************************)
C5_RegionOrderPreserved ==
    \A i \in Listed :
        LET got == ReceivedFrom(i)
            raws == RawsOf(i)
        IN  /\ Len(got) <= Len(raws)
            /\ \A k \in 1..Len(got) :
                  LET d == from_dict(raws[k])
                  IN  d.ok /\ got[k] = d.val

\* Both regions' two pages fully received, in an order that alternates
\* between the regions and starts with the region listed second.
C5_Witness ==
    /\ Len(REGIONS) = 2
    /\ Len(REGIONS[1].pages) = 2
    /\ Len(ReceivedFrom(1)) = 2
    /\ Len(ReceivedFrom(2)) = 2
    /\ received[1].region = 2
    /\ received[2].region = 1
    /\ received[3].region = 2
    /\ received[4].region = 1

(***************************************************************************)
(* C6.  A received and classified record is on the sink if and only if its *)
(* price is less than or equal to its ceiling; a price equal to the        *)
(* ceiling is emitted.  Under the flat ceiling 1.2, prices 1.00 and 1.20   *)
(* are emitted and 1.25 is not.                                            *)
(***************************************************************************)
C6_EmittedIffUnderCeiling ==
    LET seen == RecsOf(Classified)
    IN  /\ \A k \in 1..Len(seen) :
              LET p == seen[k]
                  c == Ceiling(script, p)
              IN  Count(emitted, p) =
                      IF c.ok /\ p.spot_price * c.val.den <= c.val.num
                      THEN Count(seen, p)
                      ELSE 0
        /\ \A k \in 1..Len(emitted) : Count(seen, emitted[k]) >= 1
        /\ script = "cpu" =>
              \A k \in 1..Len(seen) :
                  /\ seen[k].spot_price \in {100, 120} => Count(emitted, seen[k]) >= 1
                  /\ seen[k].spot_price = 125 => Count(emitted, seen[k]) = 0

\* Under the flat ceiling: a record priced at the ceiling is on the sink, and a
\* classified record priced 1.25 is not.
C6_Witness ==
    /\ script = "cpu"
    /\ \E k \in 1..Len(emitted) : emitted[k].spot_price = MAX_PRICE
    /\ \E k \in 1..Len(Classified) :
          /\ Classified[k].rec.spot_price = 125
          /\ Count(emitted, Classified[k].rec) = 0
    /\ \E k \in 1..Len(Classified) :
          /\ Classified[k].rec.spot_price = 100
          /\ Count(emitted, Classified[k].rec) = 1

(***************************************************************************)
(* C7.  A received record of unrecognized size or family is rejected and   *)
(* the run goes on: main raises nothing, and a run whose regions are all   *)
(* healthy ends normally with every record of every region received.       *)
(* In the gpu script the exception leaves main's loop, so this fails.      *)
(***************************************************************************)
C7_UnrecognizedRecordIsSkipped ==
    \A k \in 1..Len(Classified) :
        ~Ceiling(script, Classified[k].rec).ok
            => /\ mainExc = "none"
               /\ mainPc # "crashed"
               /\ Count(emitted, Classified[k].rec) = 0
               /\ (RunEnded /\ \A i \in Listed : Healthy(REGIONS[i]))
                     => \A i \in Listed : AllReceivedFrom(i)

(***************************************************************************)
(* C8.  The stream buffers nothing (capacity 0): the sends a task has      *)
(* completed (the records of its fetched pages that are no longer          *)
(* pending) are exactly the records main has received from it, a task      *)
(* whose record was not taken is suspended among the waiting senders, and  *)
(* a task asks for its next page only when every record of the pages it    *)
(* has fetched has been handed to main.                                    *)
(***************************************************************************)
C8_RendezvousBackpressure ==
    /\ max_buffer_size = 0
    /\ Len(buffer) <= max_buffer_size
    /\ \A i \in Listed :
          LET got == Len(ReceivedFrom(i))
              fetched == Len(Flatten(SubSeq(REGIONS[i].pages, 1, pageIdx[i])))
          IN  /\ fetched - Len(pending[i]) = got
              /\ tpc[i] = "blocked" <=>
                    \E k \in 1..Len(waiting_senders) : waiting_senders[k].region = i
              /\ tpc[i] = "paging" => pending[i] = <<>> /\ got = fetched

\* Both tasks suspended in send while main classifies a record, one of them on
\* the second record of its page.
C8_Witness ==
    /\ mainPc = "classify"
    /\ tpc[1] = "blocked"
    /\ tpc[2] = "blocked"
    /\ Len(waiting_senders) = 2
    /\ buffer = <<>>
    /\ Len(ReceivedFrom(1)) = 1
    /\ Len(pending[1]) = 1

(***************************************************************************)
(* C9.  An ec2 client is open only while its task is between entering and  *)
(* leaving the with block: a task that has terminated, however it left,    *)
(* has closed its client, and no client is open once the run has ended.    *)
(***************************************************************************)
C9_SessionsReleased ==
    /\ \A i \in Tasks :
          /\ sessionOpen[i] => tpc[i] \in {"paging", "sending", "blocked", "closing"}
          /\ sessionOpen[i] => everOpened[i]
          /\ Terminated(i) => ~sessionOpen[i]
    /\ RunEnded => \A i \in Tasks : ~sessionOpen[i]

\* A run that ended after one task, its client open, failed on a transport error
\* and its sibling, its client open too, was cancelled.
C9_Witness ==
    /\ RunEnded
    /\ \E i, j \in Tasks :
          /\ everOpened[i] /\ outcome[i] = "error" /\ tpc[i] = "failed"
          /\ everOpened[j] /\ outcome[j] = "cancelled" /\ tpc[j] = "cancelled"
    /\ \A i \in Tasks : ~sessionOpen[i]

(***************************************************************************)
(* C10.  When the region listing fails the run is over: no task is         *)
(* spawned, no stream handle and no ec2 client is opened, nothing is sent  *)
(* and nothing is emitted.                                                 *)
(***************************************************************************)
C10_ListingFailureAborts ==
    mainExc = "ListingError" =>
        /\ mainPc = "crashed"
        /\ REGIONS = <<>>
        /\ Spawned = {}
        /\ \A i \in Tasks : ~everOpened[i] /\ ~sessionOpen[i] /\ ~cloneOpen[i]
        /\ open_send_channels = 0
        /\ waiting_senders = <<>>
        /\ buffer = <<>>
        /\ received = <<>>
        /\ emitted = <<>>

C10_Witness ==
    /\ mainExc = "ListingError"
    /\ mainPc = "crashed"

(***************************************************************************)
(* C11.  main does not leave the task group's scope, normally or with an   *)
(* error, while a spawned task has not terminated: when the run has ended  *)
(* every spawned task has terminated, and while a spawned task is still    *)
(* running main is inside the scope (or has not reached it).               *)
(***************************************************************************)
C11_ScopeOutlivesTasks ==
    /\ RunEnded => \A i \in Spawned : Terminated(i)
    /\ (\E i \in Spawned : ~Terminated(i)) =>
          mainPc \in {"spawning", "recv", "recvWait", "eos", "classify", "joining"}

\* The consumer failed on a record it could not classify while the task of a
\* healthy region was suspended in send: that task met the closed receive
\* handle, and the run ended only after it and its sibling had terminated.
C11_Witness ==
    /\ mainPc = "crashed"
    /\ mainExc = "ValueError"
    /\ Len(REGIONS) = 2
    /\ \E i \in Listed :
          /\ Healthy(REGIONS[i])
          /\ outcome[i] = "error"
          /\ tpc[i] = "failed"
    /\ \A i \in Listed : Terminated(i)

(***************************************************************************)
(* C12.  Once the listing has returned, the run reaches under fair         *)
(* scheduling its terminal state: every task has terminated, main has seen *)
(* the end of the stream and main has ended; and the run goes through its  *)
(* phases (listing, fetching, draining, done) in that order, never back.   *)
(* A region's failure or a record main cannot classify cancels main while  *)
(* it drains (C1, C7): such a run ends without the end of the stream ever  *)
(* being seen.                                                             *)
(***************************************************************************)
Phase ==
    CASE mainPc = "listing" -> 1
      [] mainPc = "spawning" -> 2
      [] mainPc \in {"recv", "recvWait", "eos", "classify"} -> 3
      [] mainPc = "joining" -> 4
      [] OTHER -> 5

C12_RunReachesTerminalState ==
    /\ [][Phase' >= Phase]_vars
    /\ (mainPc = "spawning") ~>
          (/\ mainPc = "done"
           /\ eosSeen
           /\ \A i \in Listed : Terminated(i))

(***************************************************************************)
(* C13.  Under the per-unit policy a record of family G5 or G6E and of a   *)
(* listed size is emitted if and only if its price is at most its unit     *)
(* count (1 for xlarge, 2xlarge, 4xlarge, 8xlarge and 16xlarge, 4 for      *)
(* 12xlarge and 24xlarge, 8 for 48xlarge) times 0.49, divided by 2.35 for  *)
(* G5 and not adjusted for G6E; a G5 48xlarge record is emitted at 1.60    *)
(* and not at 1.70.                                                        *)
(***************************************************************************)
C13_UnitCount(size) ==
    CASE size \in {"xlarge", "2xlarge", "4xlarge", "8xlarge", "16xlarge"} -> 1
      [] size \in {"12xlarge", "24xlarge"} -> 4
      [] size = "48xlarge" -> 8

C13_PerUnitCeiling ==
    script = "gpu" =>
        \A k \in 1..Len(Classified) :
            LET p == Classified[k].rec
                family == p.instance_type[1]
                size == p.instance_type[2]
                on == Count(emitted, p) >= 1
            IN  /\ (family \in {"g5", "g6e"} /\ size \in PolicySizes \ {"weird"}) =>
                      /\ PerUnitCeiling(p).ok
                      /\ family = "g5" =>
                            /\ PerUnitCeiling(p).val.num * 235
                                   = C13_UnitCount(size) * 49 * 100 * PerUnitCeiling(p).val.den
                            /\ on <=> p.spot_price * 235 <= C13_UnitCount(size) * 49 * 100
                      /\ family = "g6e" =>
                            /\ PerUnitCeiling(p).val.num
                                   = C13_UnitCount(size) * 49 * PerUnitCeiling(p).val.den
                            /\ on <=> p.spot_price <= C13_UnitCount(size) * 49
                /\ (p.instance_type = <<"g5", "48xlarge">> /\ p.spot_price = 160) => on
                /\ (p.instance_type = <<"g5", "48xlarge">> /\ p.spot_price = 170) => ~on

\* A run that ended after a G5 48xlarge record at 1.60 and one at 1.70 were
\* classified: the first is on the sink, the second is not.
C13_Witness ==
    /\ mainPc = "done"
    /\ Len(Classified) = 2
    /\ Classified[1].rec.instance_type = <<"g5", "48xlarge">>
    /\ Classified[1].rec.spot_price = 160
    /\ Classified[2].rec.spot_price = 170
    /\ Len(emitted) = 1
    /\ emitted[1].spot_price = 160

(***************************************************************************)
(* C14.  A raw record that lacks a field or whose price does not parse is  *)
(* dropped alone: the task of its region does not fail, and by the end of  *)
(* the run every other record of that region, of the same page and of the  *)
(* later pages, has been received.  (Stated for runs in which nothing else *)
(* goes wrong: the other regions are healthy and every record can be       *)
(* classified.)  from_dict raises inside query_region, so the task fails.  *)
(***************************************************************************)
Undecodable(r) ==
    /\ r.open
    /\ r.ending = "end"
    /\ \E k \in 1..Len(Flatten(r.pages)) : ~from_dict(Flatten(r.pages)[k]).ok

Classifiable(i) == \A k \in 1..Len(DecodedOf(i)) : Ceiling(script, DecodedOf(i)[k]).ok

C14_MalformedRecordIsDropped ==
    \A i \in Listed :
        (/\ Undecodable(REGIONS[i])
         /\ \A j \in Listed \ {i} : Healthy(REGIONS[j])
         /\ \A j \in Listed : Classifiable(j))
        => /\ tpc[i] # "failed"
           /\ outcome[i] # "error"
           /\ i \notin exceptions
           /\ RunEnded =>
                 /\ Len(ReceivedFrom(i)) = Len(DecodedOf(i))
                 /\ \A k \in 1..Len(DecodedOf(i)) : ReceivedFrom(i)[k] = DecodedOf(i)[k]

(***************************************************************************)
(* C15.  For a run whose listing succeeded: when it has ended, it has      *)
(* ended in error if and only if a task or main's loop raised; a record    *)
(* that was classified under its ceiling is on the sink whatever happened  *)
(* afterwards; and every record of a healthy region has been received,     *)
(* and is on the sink if under its ceiling, whether or not another region  *)
(* or record raised an error.  An error cancels main and the tasks of the  *)
(* healthy regions (C1), so their later records are lost.                  *)
(***************************************************************************)
ErrorOccurred == exceptions # {} \/ mainExc \notin {"none", "Cancelled"}

C15_ErrorsDoNotSuppressResults ==
    mainExc # "ListingError" =>
        /\ \A k \in 1..Len(Classified) :
              Accept(script, Classified[k].rec) => Count(emitted, Classified[k].rec) >= 1
        /\ RunEnded =>
              /\ mainPc = "crashed" <=> ErrorOccurred
              /\ \A j \in Listed :
                    (Healthy(REGIONS[j]) /\ Classifiable(j)) =>
                        /\ AllReceivedFrom(j)
                        /\ \A k \in 1..Len(DecodedOf(j)) :
                              Accept(script, DecodedOf(j)[k])
                                  => Count(emitted, DecodedOf(j)[k]) >= 1

(***************************************************************************)
(* C16.  One task is spawned per entry of the region list, no more and no  *)
(* fewer once the spawn loop is over; every open send handle is main's own *)
(* or the clone of exactly one spawned task; a session belongs to the one  *)
(* task that opened it, and a task that has opened a session is never      *)
(* again where it could open another.                                      *)
(***************************************************************************)
C16_OneTaskCloneSessionPerRegion ==
    /\ Spawned \subseteq Listed
    /\ MainYielded => Spawned = Listed /\ Cardinality(Spawned) = Len(REGIONS)
    /\ open_send_channels =
          Cardinality({i \in Tasks : cloneOpen[i]}) + (IF origOpen THEN 1 ELSE 0)
    /\ \A i \in Tasks :
          /\ cloneOpen[i] => i \in Spawned
          /\ everOpened[i] => i \in Spawned /\ tpc[i] # "spawned"
          /\ sessionOpen[i] => everOpened[i]
    /\ Cardinality({i \in Tasks : everOpened[i]}) <= Len(REGIONS)

\* Two regions, two tasks, each with its clone and its session open at the
\* same time, main's own handle closed.
C16_Witness ==
    /\ Len(REGIONS) = 2
    /\ Spawned = {1, 2}
    /\ sessionOpen[1] /\ sessionOpen[2]
    /\ cloneOpen[1] /\ cloneOpen[2]
    /\ ~origOpen
    /\ open_send_channels = 2

(***************************************************************************)
(* C17.  A region with no page, or with empty pages only, is no error: no  *)
(* record of it is received, its task raises nothing and is never          *)
(* suspended on the stream; unless the run is cancelled its task's next    *)
(* step can always be taken and it ends normally with its session and its  *)
(* send handle closed; once it and the other tasks have closed their       *)
(* handles no send handle is open; and a run that ends without error has   *)
(* seen the end of the stream.                                             *)
(***************************************************************************)
Empty(r) ==
    /\ r.open
    /\ r.ending = "end"
    /\ \A k \in 1..Len(r.pages) : r.pages[k] = <<>>

C17_EmptyRegionIsNoError ==
    \A i \in Listed :
        Empty(REGIONS[i]) =>
            /\ \A k \in 1..Len(received) : received[k].region # i
            /\ \A k \in 1..Len(waiting_senders) : waiting_senders[k].region # i
            /\ tpc[i] \notin {"sending", "blocked", "failed"}
            /\ outcome[i] # "error"
            /\ i \notin exceptions
            /\ ~cancelled =>
                  /\ Terminated(i) => tpc[i] = "done"
                  /\ tpc[i] = "spawned" /\ MainYielded => ENABLED OpenSession(i)
                  /\ tpc[i] = "paging" => ENABLED NextPage(i)
                  /\ tpc[i] = "closing" => ENABLED ReleaseSession(i)
            /\ tpc[i] = "done" => outcome[i] = "ok" /\ ~sessionOpen[i] /\ ~cloneOpen[i]
            /\ (/\ tpc[i] \in {"closing", "done"}
                /\ ~origOpen
                /\ \A j \in Listed \ {i} : ~cloneOpen[j]) => open_send_channels = 0
            /\ mainPc = "done" => eosSeen /\ tpc[i] = "done"

\* A region without pages and a region of two records: the run ended normally,
\* both records were received, the end of the stream was seen and the task of
\* the empty region ended normally.
C17_Witness ==
    /\ mainPc = "done"
    /\ eosSeen
    /\ Len(REGIONS) = 2
    /\ Empty(REGIONS[1])
    /\ tpc[1] = "done"
    /\ everOpened[1] /\ ~sessionOpen[1] /\ ~cloneOpen[1]
    /\ Len(received) = 2

(***************************************************************************)
(* C18.  A task that has terminated has closed its clone of the send       *)
(* handle, however it left query_region, and once the run has ended no     *)
(* send handle is open.  A task that fails or is cancelled in              *)
(* create_client has not entered output, whose clone is then never closed. *)
(***************************************************************************)
C18_ClonesClosedAtTermination ==
    /\ \A i \in Spawned : Terminated(i) => ~cloneOpen[i]
    /\ RunEnded => open_send_channels = 0

(***************************************************************************)
(* C19.  When main has left its receive loop before the end of the stream  *)
(* (a record it could not classify, or a cancellation), then under fair    *)
(* scheduling the run ends: every spawned task has terminated, none is     *)
(* left suspended in send, every session is closed and main has left the   *)
(* task group.                                                             *)
(***************************************************************************)
ConsumerStopped == mainPc = "joining" /\ ~eosSeen

C19_NoSenderLeftSuspended ==
    ConsumerStopped ~>
        (/\ RunEnded
         /\ waiting_senders = <<>>
         /\ \A i \in Spawned : Terminated(i) /\ ~sessionOpen[i])

\* A run that ended after main raised on a record it could not classify while
\* the task of the other region still had a record to send: both tasks have
\* terminated, their sessions are closed.
C19_Witness ==
    /\ mainPc = "crashed"
    /\ mainExc = "ValueError"
    /\ Len(REGIONS) = 2
    /\ waiting_senders = <<>>
    /\ \A i \in Listed : Terminated(i) /\ everOpened[i] /\ ~sessionOpen[i]
    /\ \E i \in Listed : pending[i] # <<>> /\ outcome[i] = "error"

(***************************************************************************)
(* C20.  When the listing returns no region: no task is spawned; main has  *)
(* closed its own send handle, the only one, before it starts to drain; it *)
(* is never suspended in receive, its next step can always be taken, and   *)
(* it leaves the loop on the end of the stream; the run ends normally and  *)
(* nothing is received or emitted.                                         *)
(***************************************************************************)
C20_EmptyListingEndsAtOnce ==
    (mainPc # "listing" /\ mainExc # "ListingError" /\ REGIONS = <<>>) =>
        /\ Spawned = {}
        /\ mainPc \in {"spawning", "recv", "joining", "done"}
        /\ mainPc = "spawning" => ENABLED CloseOrig
        /\ mainPc # "spawning" => ~origOpen /\ open_send_channels = 0
        /\ mainPc = "recv" => ENABLED Receive
        /\ mainPc \in {"joining", "done"} => eosSeen /\ mainExc = "none"
        /\ mainPc = "joining" => ENABLED Join
        /\ received = <<>>
        /\ emitted = <<>>
        /\ \A i \in Tasks : ~everOpened[i]

\* The run on an empty region list has ended normally, the end of the stream
\* seen, nothing emitted.
C20_Witness ==
    /\ mainPc = "done"
    /\ mainExc = "none"
    /\ REGIONS = <<>>
    /\ eosSeen
    /\ ~origOpen
    /\ emitted = <<>>

====
